---- MODULE Spec2Model ----
(***************************************************************************)
(* Model of OCC::KeychainChunk (src/src/libsync/creds/keychainchunk.cpp):  *)
(* the WriteJob and ReadJob chains of asynchronous QKeychain operations,   *)
(* in the three build configurations the preprocessor selects             *)
(* (Q_OS_WIN: chunking; Q_OS_UNIX && !Q_OS_MAC: retry; Q_OS_MAC: neither). *)
(***************************************************************************)
EXTENDS Integers, Sequences, FiniteSets, TLC

\* ------------------------------------------------------------------------
\* Bounds.  ChunkSize and MaxChunks are the constants of keychainchunk.h,
\* scaled down; a secret is at most MaxExcess bytes longer than the
\* chunked capacity.
ChunkSize == 2
MaxChunks == 3
MaxExcess == 1

Capacity == ChunkSize * MaxChunks
MaxLen == Capacity + MaxExcess

VARIABLES
    platform,   \* build configuration: "win", "linux" or "mac"
    store,      \* the keychain: storage key -> bytes
    backend,    \* QKeychain jobs started and not yet finished
    timer,      \* TRUE while the QTimer::singleShot of the retry is pending
    wj,         \* the current KeychainChunk::WriteJob
    rj,         \* the KeychainChunk::ReadJob
    hist        \* history: operations issued, completions, signals emitted

vars == <<platform, store, backend, timer, wj, rj, hist>>

Platforms == {"win", "linux", "mac"}

\* QKeychain::Error values the backend can report besides NoError.
ErrorKinds == {"EntryNotFound", "AccessDenied", "NoBackendAvailable", "OtherError"}

\* QKeychain::Job::errorString() of a finished backend job.
ErrorString(e) == IF e = "NoError" THEN "" ELSE "qtkeychain: " \o e

\* ------------------------------------------------------------------------
\* Inputs.
nullptr == [url |-> "", id |-> ""]
Accounts == {[url |-> "https://cloud.example", id |-> "7"]}
\* The same account before accounts had an id: the scope of legacy entries.
LegacyAccounts == {[url |-> a.url, id |-> ""] : a \in Accounts}
Keys == {"clientKeyPEM"}
applicationName == "Nextcloud"

\* A secret of n bytes whose bytes are pairwise distinct, so that a lost,
\* repeated or reordered byte changes the value.
Ramp(b, n) == [i \in 1..n |-> (b + i) % 256]
Secrets == {Ramp(0, n) : n \in 0..MaxLen}

\* What an earlier WriteJob may have stored: a secret filling every chunk.
OldSecrets == {Ramp(100, Capacity)}

\* QByteArray::left and QByteArray::right.
Left(buf, n) == SubSeq(buf, 1, IF n < Len(buf) THEN n ELSE Len(buf))
Right(buf, n) == SubSeq(buf, Len(buf) - (IF n < Len(buf) THEN n ELSE Len(buf)) + 1, Len(buf))

\* ------------------------------------------------------------------------
\* Key derivation.

\* AbstractCredentials::keychainKey(url, user, accountId): the scope
\* qualified key, kept as its three components.
keychainKey(url, user, accountId) == <<url, user, accountId>>

\* Mutant: the chunk index never reaches the key.
keyWithIndex_unsuffixed(key, index) == key

\* _key + (index > 0 ? "." + QString::number(index) : QString())
keyWithIndex(key, index) == IF index > 0 THEN key \o "." \o ToString(index) ELSE key

\* Mutant: the account scope never reaches the key.
WriteKck_unscoped(j, index) == <<keyWithIndex(j.key, index)>>

\* The kck of WriteJob::slotWriteJobDone.
WriteKck(j, index) ==
    IF j.account # nullptr
    THEN keychainKey(j.account.url, keyWithIndex(j.key, index), j.account.id)
    ELSE <<keyWithIndex(j.key, index)>>

\* The kck of ReadJob::start (chunk 0).
ReadStartKck(j) ==
    IF j.account # nullptr
    THEN keychainKey(j.account.url, j.key, IF j.keychainMigration THEN "" ELSE j.account.id)
    ELSE <<j.key>>

\* Mutant: the later chunks are looked up under the account id even in
\* migration mode.
ReadNextKck_ignoresMigration(j) ==
    IF j.account # nullptr
    THEN keychainKey(j.account.url, j.key \o "." \o ToString(j.chunkCount), j.account.id)
    ELSE <<j.key \o "." \o ToString(j.chunkCount)>>

\* The kck of ReadJob::slotReadJobDone (chunk _chunkCount, always > 0).
ReadNextKck(j) ==
    IF j.account # nullptr
    THEN keychainKey(j.account.url, j.key \o "." \o ToString(j.chunkCount),
                     IF j.keychainMigration THEN "" ELSE j.account.id)
    ELSE <<j.key \o "." \o ToString(j.chunkCount)>>

\* ------------------------------------------------------------------------
\* Jobs.

\* The key the constructors leave in _key: the overloads without account
\* prepend the application name on Windows.
CtorKey(ctor, key) ==
    IF ctor = "key" /\ platform = "win" THEN applicationName \o "_" \o key ELSE key

\* WriteJob::WriteJob; phase is the caller's position.
NewWriteJob(ctor, account, key, data) ==
    [phase |-> "constructed", ctor |-> ctor,
     account |-> IF ctor = "key" THEN nullptr ELSE account,
     key |-> CtorKey(ctor, key), data |-> data,
     chunkBuffer |-> data, chunkCount |-> 0,
     insecureFallback |-> FALSE, isJobRunning |-> FALSE,
     error |-> "NoError", errorString |-> "",
     await |-> FALSE, result |-> "none"]

\* ReadJob::ReadJob.  The members the constructor does not set keep the
\* defaults of the class: no error, not running, retry permitted.
NewReadJob(ctor, account, key, keychainMigration, insecureFallback) ==
    [phase |-> "constructed", ctor |-> ctor,
     account |-> IF ctor = "key" THEN nullptr ELSE account,
     key |-> CtorKey(ctor, key),
     keychainMigration |-> IF ctor = "key" THEN FALSE ELSE keychainMigration,
     chunkBuffer |-> <<>>, chunkCount |-> 0,
     insecureFallback |-> insecureFallback, isJobRunning |-> FALSE,
     retryOnKeyChainError |-> TRUE,
     error |-> "NoError", errorString |-> "",
     await |-> FALSE, result |-> "none"]

\* No ReadJob exists yet.
NoReadJob == [NewReadJob("account", nullptr, "", FALSE, FALSE) EXCEPT !.phase = "none"]

\* A QKeychain::WritePasswordJob / ReadPasswordJob that has been started.
BackendJob(op, key, data, insecureFallback) ==
    [op |-> op, key |-> key, data |-> data, insecureFallback |-> insecureFallback,
     id |-> Len(hist.w.issued) + Len(hist.r.issued) + 1]

\* The finished signal's argument: the backend job with its outcome.
Finished(b, e, data) ==
    [op |-> b.op, key |-> b.key, insecureFallback |-> b.insecureFallback, id |-> b.id,
     error |-> e, errorString |-> ErrorString(e), data |-> data]

NoIncoming == Finished([op |-> "none", key |-> <<>>, insecureFallback |-> FALSE, id |-> 0],
                       "NoError", <<>>)

\* ------------------------------------------------------------------------
\* WriteJob::slotWriteJobDone(incomingJob); incomingJob is NoIncoming for
\* the call from start().  Each step yields the job, the backend jobs it
\* started and the number of finished signals it emitted.

\* Mutant: a failed write leaves the pending buffer in place.
WriteCheckError_keepsBuffer(j, incoming) ==
    IF incoming # NoIncoming
    THEN [j EXCEPT !.error = incoming.error, !.errorString = incoming.errorString]
    ELSE j

\* "errors?": take over the outcome of the finished backend job.
WriteCheckError(j, incoming) ==
    IF incoming # NoIncoming
    THEN [j EXCEPT !.error = incoming.error,
                   !.errorString = incoming.errorString,
                   !.chunkBuffer = IF incoming.error # "NoError" THEN <<>> ELSE @]
    ELSE j

\* Mutant: the buffer is never split.
WriteChunk_wholeBuffer(buf) == buf

\* The chunk taken off the front of the buffer, and what stays behind.
WriteChunk(buf) == IF platform = "win" THEN Left(buf, ChunkSize) ELSE buf

WriteRest(buf) ==
    IF platform = "win" THEN Right(buf, Len(buf) - Len(WriteChunk(buf))) ELSE <<>>

\* Mutants: the limit cuts one chunk early; the limit is never enforced.
WriteLimitExceeded_early(chunkCount) == chunkCount >= MaxChunks
WriteLimitExceeded_never(chunkCount) == FALSE

\* "keep the limit", tested after _chunkCount++.
WriteLimitExceeded(chunkCount) == chunkCount > MaxChunks

\* The branch "write a chunk if there is any in the buffer".
WriteNextChunk(j) ==
    LET chunk == WriteChunk(j.chunkBuffer)
        index == j.chunkCount
        j2    == [j EXCEPT !.chunkBuffer = WriteRest(j.chunkBuffer), !.chunkCount = @ + 1]
    IN  IF WriteLimitExceeded(j2.chunkCount)
        THEN [job |-> [j2 EXCEPT !.chunkBuffer = <<>>, !.isJobRunning = FALSE],
              start |-> {}, emit |-> 1]
        ELSE [job |-> j2,
              start |-> {BackendJob("write", WriteKck(j2, index), chunk,
                                    j2.insecureFallback)},
              emit |-> 0]

\* The branch of an empty buffer.
WriteFinish(j) == [job |-> [j EXCEPT !.isJobRunning = FALSE], start |-> {}, emit |-> 1]

WriteJobDone(j, incoming) ==
    LET j1 == WriteCheckError(j, incoming)
    IN  IF j1.chunkBuffer # <<>> THEN WriteNextChunk(j1) ELSE WriteFinish(j1)

\* WriteJob::start.  Its call slotWriteJobDone(nullptr) ends in
\* writeJob->deleteLater() on the null pointer: QObject::deleteLater posts a
\* deferred-delete event to the object, and QCoreApplication::postEvent
\* drops an event for a null receiver, so the call changes no state.
WriteStart(j) == WriteJobDone([j EXCEPT !.isJobRunning = TRUE], NoIncoming)

\* ------------------------------------------------------------------------
\* ReadJob::start: also the slot of the retry timer.
ReadStart(j) ==
    [job |-> [j EXCEPT !.chunkCount = 0, !.chunkBuffer = <<>>, !.isJobRunning = TRUE],
     start |-> {BackendJob("read", ReadStartKck(j), <<>>, j.insecureFallback)},
     emit |-> 0, timer |-> FALSE]

\* ReadJob::slotReadJobDone(incomingJob), branch by branch.

\* Mutant: the chunk lands in front of the buffer.
ReadAppend_prepends(buf, data) == data \o buf

\* _chunkBuffer.append(readJob->binaryData())
ReadAppend(buf, data) == buf \o data

\* Mutant: the next chunk is looked for in every configuration.
ReadFetchesNext_everywhere(chunkCount) == chunkCount < MaxChunks

\* "try to fetch next chunk", compiled on Windows only.
ReadFetchesNext(chunkCount) == platform = "win" /\ chunkCount < MaxChunks

\* The finished read brought data.
ReadChunk(j, incoming) ==
    LET j1 == [j EXCEPT !.chunkBuffer = ReadAppend(@, incoming.data), !.chunkCount = @ + 1]
    IN  IF ReadFetchesNext(j1.chunkCount)
        THEN [job |-> j1,
              start |-> {BackendJob("read", ReadNextKck(j1), <<>>, j1.insecureFallback)},
              emit |-> 0, timer |-> FALSE]
        ELSE [job |-> [j1 EXCEPT !.isJobRunning = FALSE],
              start |-> {}, emit |-> 1, timer |-> FALSE]

\* The retry block is compiled on Unix other than macOS and is skipped when
\* the backend job ran with insecure fallback.
\* Mutant: the retry block is compiled in every configuration.
ReadRetryCompiled_everywhere == TRUE

ReadRetryCompiled == platform = "linux"

\* Mutant: the insecure fallback of the finished job is not looked at.
ReadRetryApplies_ignoresFallback(j, incoming) ==
    /\ ReadRetryCompiled
    /\ j.retryOnKeyChainError
    /\ incoming.error \in {"NoBackendAvailable", "OtherError"}

ReadRetryApplies(j, incoming) ==
    /\ ReadRetryCompiled
    /\ ~incoming.insecureFallback
    /\ j.retryOnKeyChainError
    /\ incoming.error \in {"NoBackendAvailable", "OtherError"}

\* Mutants: the retry permission is not consumed; the retry also calls
\* start() at once.
ReadRetry_keepsPermission(j) == [job |-> j, start |-> {}, emit |-> 0, timer |-> TRUE]
ReadRetry_alsoRestarts(j) ==
    [ReadStart([j EXCEPT !.retryOnKeyChainError = FALSE]) EXCEPT !.timer = TRUE]

\* QTimer::singleShot(10000, this, &ReadJob::start); return
ReadRetry(j) ==
    [job |-> [j EXCEPT !.retryOnKeyChainError = FALSE],
     start |-> {}, emit |-> 0, timer |-> TRUE]

\* Mutant: EntryNotFound is never recorded.
ReadRecordsError_neverNotFound(chunkCount, e) == e # "EntryNotFound"

\* Mutant: every failure is recorded, also the end of the chunks.
ReadRecordsError_always(chunkCount, e) == TRUE

\* Whether the failure is recorded as the job's error.
ReadRecordsError(chunkCount, e) ==
    e # "EntryNotFound" \/ (e = "EntryNotFound" /\ chunkCount = 0)

\* The finished read failed or brought no data, and is not retried.
ReadFail(j, incoming) ==
    LET j1 == IF ReadRetryCompiled /\ ~incoming.insecureFallback
              THEN [j EXCEPT !.retryOnKeyChainError = FALSE] ELSE j
        j2 == IF ReadRecordsError(j1.chunkCount, incoming.error)
              THEN [j1 EXCEPT !.error = incoming.error,
                              !.errorString = incoming.errorString]
              ELSE j1
    IN  [job |-> [j2 EXCEPT !.isJobRunning = FALSE],
         start |-> {}, emit |-> 1, timer |-> FALSE]

ReadJobDone(j, incoming) ==
    IF incoming.error = "NoError" /\ Len(incoming.data) > 0
    THEN ReadChunk(j, incoming)
    ELSE IF ReadRetryApplies(j, incoming) THEN ReadRetry(j) ELSE ReadFail(j, incoming)

\* ReadJob::startAwait after its event loop.

\* Mutant: a failed startAwait leaves the chunks in place.
ReadAwaitReturn_keepsBuffer(j) ==
    [j EXCEPT !.result = IF j.error # "NoError" THEN "false" ELSE "true"]

ReadAwaitReturn(j) ==
    IF j.error # "NoError"
    THEN [j EXCEPT !.chunkCount = 0, !.chunkBuffer = <<>>, !.result = "false"]
    ELSE [j EXCEPT !.result = "true"]

\* ------------------------------------------------------------------------
\* The keychain backend (QtKeychain and the OS store behind it).

EmptyStore == [k \in {} |-> <<>>]

\* A write that succeeds stores the data under the key.
StorePut(s, key, data) ==
    [k \in DOMAIN s \cup {key} |-> IF k = key THEN data ELSE s[k]]

\* The outcome of a read that the backend serves from the store.
ReadOutcome(s, b) ==
    IF b.key \in DOMAIN s THEN Finished(b, "NoError", s[b.key])
                          ELSE Finished(b, "EntryNotFound", <<>>)

\* The store after a WriteJob for j started on store s and all of its
\* backend writes succeeded.
RECURSIVE Settle(_, _)
Settle(r, s) ==
    IF r.start = {} THEN s
    ELSE LET b == CHOOSE x \in r.start : TRUE
         IN  Settle(WriteJobDone(r.job, Finished(b, "NoError", b.data)),
                    StorePut(s, b.key, b.data))

StoreAfter(j) == Settle(WriteStart(j), EmptyStore)

\* Store s with one of its entries emptied: the keychain is shared, and a
\* QKeychain::WritePasswordJob of any program may store zero bytes.
Emptied(s) == {StorePut(s, key, <<>>) : key \in DOMAIN s}

\* The keychain when the model starts: empty, or as an earlier WriteJob of
\* this build left it, for the account, for the account without id (a
\* legacy entry), or without account; or the account's entries with one of
\* them emptied since.
InitStores ==
    {EmptyStore} \cup
    {StoreAfter(NewWriteJob("account", a, k, d)) :
        a \in Accounts \cup LegacyAccounts, k \in Keys, d \in OldSecrets} \cup
    {StoreAfter(NewWriteJob("key", nullptr, k, d)) : k \in Keys, d \in OldSecrets} \cup
    UNION {Emptied(StoreAfter(NewWriteJob("account", a, k, d))) :
              a \in Accounts, k \in Keys, d \in OldSecrets}

\* ------------------------------------------------------------------------
\* History bookkeeping.
\* hist.w and hist.r hold, for the current WriteJob and for the ReadJob, the
\* backend jobs it started (in order), the completions its slot handled (in
\* order) and the number of finished signals it emitted; attempts counts
\* the calls of start(), first is the position in issued of the first
\* operation of the current attempt, index[i] is the position of issued[i]
\* within its attempt (from 0), pre is the store when the job started.
NoHistory ==
    [issued |-> <<>>, index |-> <<>>, completed |-> <<>>, emitted |-> 0,
     attempts |-> 0, first |-> 1, pre |-> EmptyStore]

Issue(issued, started) ==
    IF started = {} THEN issued
    ELSE issued \o <<CHOOSE b \in started : TRUE>>

Log(h, started, done, emit) ==
    [h EXCEPT !.issued = Issue(@, started),
              !.index = IF started = {} THEN @ ELSE Append(@, Len(h.issued) + 1 - h.first),
              !.completed = IF done = NoIncoming THEN @ ELSE Append(@, done),
              !.emitted = @ + emit]

Attempt(h, s) ==
    [h EXCEPT !.attempts = @ + 1, !.first = Len(h.issued) + 1,
              !.pre = IF h.attempts = 0 THEN s ELSE @]

Init ==
    /\ platform \in Platforms
    /\ hist = [w |-> NoHistory, r |-> NoHistory]
    /\ store \in InitStores
    /\ backend = {}
    /\ timer = FALSE
    /\ \E ctor \in {"account", "key"}, a \in Accounts, k \in Keys, d \in Secrets :
          wj = NewWriteJob(ctor, a, k, d)
    /\ rj = NoReadJob

\* --- WriteJob -----------------------------------------------------------

\* WriteJob::start, called by the owner (await = FALSE) or as the first
\* statement of WriteJob::startAwait (await = TRUE).
WriteJob_start ==
    \E await \in BOOLEAN :
        LET r == WriteStart(wj)
        IN  /\ wj.phase = "constructed"
            /\ wj' = [r.job EXCEPT !.phase = "started", !.await = await]
            /\ backend' = backend \cup r.start
            /\ hist' = [hist EXCEPT !.w = Log(Attempt(@, store), r.start, NoIncoming, r.emit)]
            /\ UNCHANGED <<platform, store, timer, rj>>

\* WriteJob::startAwait leaving its event loop.
WriteJob_startAwait ==
    /\ wj.phase = "started" /\ wj.await /\ wj.result = "none"
    /\ ~wj.isJobRunning
    /\ wj' = [wj EXCEPT !.result = IF wj.error # "NoError" THEN "false" ELSE "true"]
    /\ UNCHANGED <<platform, store, backend, timer, rj, hist>>

\* A WritePasswordJob finishes with outcome e and its finished signal runs
\* WriteJob::slotWriteJobDone.
WriteJob_slotWriteJobDone ==
    \E b \in backend, e \in {"NoError"} \cup (ErrorKinds \ {"EntryNotFound"}) :
        LET done == Finished(b, e, b.data)
            r    == WriteJobDone(wj, done)
        IN  /\ b.op = "write"
            /\ store' = IF e = "NoError" THEN StorePut(store, b.key, b.data) ELSE store
            /\ wj' = r.job
            /\ backend' = (backend \ {b}) \cup r.start
            /\ hist' = [hist EXCEPT !.w = Log(@, r.start, done, r.emit)]
            /\ UNCHANGED <<platform, timer, rj>>

WriteClosed ==
    /\ wj.phase = "started" /\ ~wj.isJobRunning
    /\ wj.await => wj.result # "none"

\* --- ReadJob ------------------------------------------------------------

ReadJob_ctor ==
    /\ WriteClosed /\ rj.phase = "none"
    /\ \E ctor \in {"account", "key"}, a \in Accounts, k \in Keys,
          m \in BOOLEAN, f \in BOOLEAN :
          rj' = NewReadJob(ctor, a, k, m, f)
    /\ UNCHANGED <<platform, store, backend, timer, wj, hist>>

\* ReadJob::start, called by the owner (await = FALSE) or as the first
\* statement of ReadJob::startAwait (await = TRUE).
ReadJob_start ==
    \E await \in BOOLEAN :
        LET r == ReadStart(rj)
        IN  /\ rj.phase = "constructed"
            /\ rj' = [r.job EXCEPT !.phase = "started", !.await = await]
            /\ backend' = backend \cup r.start
            /\ hist' = [hist EXCEPT !.r = Log(Attempt(@, store), r.start, NoIncoming, r.emit)]
            /\ UNCHANGED <<platform, store, timer, wj>>

\* The retry timer fires: QTimer::singleShot(10000, this, &ReadJob::start).
ReadJob_retryTimer ==
    LET r == ReadStart(rj)
    IN  /\ timer
        /\ timer' = FALSE
        /\ rj' = r.job
        /\ backend' = backend \cup r.start
        /\ hist' = [hist EXCEPT !.r = Log(Attempt(@, store), r.start, NoIncoming, r.emit)]
        /\ UNCHANGED <<platform, store, wj>>

\* A ReadPasswordJob finishes and its finished signal runs
\* ReadJob::slotReadJobDone: served from the store (e = "NoError") or
\* failing with e.
ReadJob_slotReadJobDone ==
    \E b \in backend, e \in {"NoError"} \cup (ErrorKinds \ {"EntryNotFound"}) :
        LET done == IF e = "NoError" THEN ReadOutcome(store, b) ELSE Finished(b, e, <<>>)
            r    == ReadJobDone(rj, done)
        IN  /\ b.op = "read"
            /\ rj' = r.job
            /\ timer' = r.timer
            /\ backend' = (backend \ {b}) \cup r.start
            /\ hist' = [hist EXCEPT !.r = Log(@, r.start, done, r.emit)]
            /\ UNCHANGED <<platform, store, wj>>

\* ReadJob::startAwait leaving its event loop.
ReadJob_startAwait ==
    /\ rj.phase = "started" /\ rj.await /\ rj.result = "none"
    /\ ~rj.isJobRunning
    /\ rj' = ReadAwaitReturn(rj)
    /\ UNCHANGED <<platform, store, backend, timer, wj, hist>>

Next ==
    \/ WriteJob_start
    \/ WriteJob_startAwait
    \/ WriteJob_slotWriteJobDone
    \/ ReadJob_ctor
    \/ ReadJob_start
    \/ ReadJob_retryTimer
    \/ ReadJob_slotReadJobDone
    \/ ReadJob_startAwait

Spec == Init /\ [][Next]_vars

TypeOK ==
    /\ platform \in Platforms
    /\ timer \in BOOLEAN
    /\ wj.chunkCount \in 0..(MaxChunks + 1)
    /\ rj.chunkCount \in 0..MaxChunks

\* ------------------------------------------------------------------------
\* Vocabulary of the properties.

WriteDone == wj.phase = "started" /\ ~wj.isJobRunning
ReadDone == rj.phase = "started" /\ ~rj.isJobRunning

\* Every backend write of the WriteJob succeeded.
WritesSucceeded ==
    \A i \in 1..Len(hist.w.completed) : hist.w.completed[i].error = "NoError"

\* Every backend read of the ReadJob was served from the store.
ReadsServed ==
    \A i \in 1..Len(hist.r.completed) :
        hist.r.completed[i].error \in {"NoError", "EntryNotFound"}

\* The ReadJob has the key and account scope of the WriteJob and does not
\* read in migration mode.
SameScope ==
    /\ rj.ctor = wj.ctor /\ rj.account = wj.account /\ rj.key = wj.key
    /\ ~rj.keychainMigration

\* The storage key of chunk i of the WriteJob's secret, spelled out.
ChunkName(key, i) == IF i = 0 THEN key ELSE key \o "." \o ToString(i)
ChunkKey(j, i) ==
    IF j.account = nullptr THEN <<ChunkName(j.key, i)>>
    ELSE <<j.account.url, ChunkName(j.key, i), j.account.id>>

\* The store held nothing under the WriteJob's names when the job started.
NoPriorEntries ==
    \A i \in 0..(MaxChunks - 1) : ChunkKey(wj, i) \notin DOMAIN hist.w.pre

Min(a, b) == IF a < b THEN a ELSE b
Ceil(a, b) == (a + b - 1) \div b

\* ------------------------------------------------------------------------
\* C1: round trip.  In the multi-chunk configuration, a non-empty secret of
\* at most ChunkSize * MaxChunks bytes written by a WriteJob to a store
\* without entries under its names, and read by a ReadJob of the same key
\* and scope (not in migration mode) with every backend operation
\* succeeding, comes back byte for byte with error state NoError.
C1_RoundTrip ==
    ( /\ platform = "win"
      /\ ReadDone /\ SameScope /\ NoPriorEntries
      /\ wj.data # <<>> /\ Len(wj.data) <= Capacity
      /\ WritesSucceeded /\ ReadsServed )
    => (rj.error = "NoError" /\ rj.chunkBuffer = wj.data)

C1_Witness ==
    /\ platform = "win"
    /\ ReadDone /\ SameScope /\ NoPriorEntries
    /\ Len(wj.data) = Capacity - 1
    /\ WritesSucceeded /\ ReadsServed
    /\ rj.chunkCount = MaxChunks /\ rj.chunkBuffer = wj.data

\* ------------------------------------------------------------------------
\* C2: truncation, as claimed for every configuration: a secret longer
\* than ChunkSize * MaxChunks is written without error and read back, without
\* error, as exactly its first ChunkSize * MaxChunks bytes.
Truncated ==
    /\ wj.error = "NoError" /\ rj.error = "NoError"
    /\ rj.chunkBuffer = SubSeq(wj.data, 1, Capacity)

C2_Original ==
    ( /\ ReadDone /\ SameScope /\ NoPriorEntries
      /\ Len(wj.data) > Capacity
      /\ WritesSucceeded /\ ReadsServed )
    => Truncated

\* C2 as amended: the truncation happens in the multi-chunk configuration.
C2_Truncation ==
    ( /\ platform = "win"
      /\ ReadDone /\ SameScope /\ NoPriorEntries
      /\ Len(wj.data) > Capacity
      /\ WritesSucceeded /\ ReadsServed )
    => Truncated

C2_Witness ==
    /\ platform = "win"
    /\ ReadDone /\ SameScope /\ NoPriorEntries
    /\ Len(wj.data) > Capacity
    /\ WritesSucceeded /\ ReadsServed
    /\ Len(rj.chunkBuffer) = Capacity /\ hist.w.emitted = 1

\* ------------------------------------------------------------------------
\* C3: chunk count and naming, as claimed for every configuration: a
\* WriteJob whose writes all succeed issues min(ceil(L / ChunkSize),
\* MaxChunks) backend writes, in ascending index order, index 0 under the
\* unsuffixed key and index i > 0 under key.i, chunk i holding the payload
\* bytes [i * ChunkSize, min((i + 1) * ChunkSize, L)).
ChunkedWrites ==
    LET L == Len(wj.data)
    IN  /\ Len(hist.w.issued) = Min(Ceil(L, ChunkSize), MaxChunks)
        /\ \A i \in 0..(Len(hist.w.issued) - 1) :
              LET w == hist.w.issued[i + 1]
              IN  /\ w.op = "write"
                  /\ w.key = ChunkKey(wj, i)
                  /\ w.data = SubSeq(wj.data, i * ChunkSize + 1, Min((i + 1) * ChunkSize, L))
                  /\ w.data # <<>> /\ Len(w.data) <= ChunkSize

C3_Original == (WriteDone /\ WritesSucceeded) => ChunkedWrites

\* C3 as amended: the chunking is that of the multi-chunk configuration.
C3_ChunkCount == (platform = "win" /\ WriteDone /\ WritesSucceeded) => ChunkedWrites

C3_Witness ==
    /\ platform = "win" /\ WriteDone /\ WritesSucceeded
    /\ Len(wj.data) = Capacity - 1
    /\ Len(hist.w.issued) = MaxChunks
    /\ Len(hist.w.issued[MaxChunks].data) = ChunkSize - 1

\* The storage key of chunk i as the ReadJob looks it up, spelled out.
ReadKey(j, i) ==
    IF j.account = nullptr THEN <<ChunkName(j.key, i)>>
    ELSE <<j.account.url, ChunkName(j.key, i),
           IF j.keychainMigration THEN "" ELSE j.account.id>>

LastRead == hist.r.completed[Len(hist.r.completed)]

\* ------------------------------------------------------------------------
\* C4: missing key.  A ReadJob whose read of chunk 0 ends with
\* EntryNotFound finishes, on that completion, with error state
\* EntryNotFound, chunk count 0 and an empty buffer, and has read no index
\* other than 0.
C4_MissingKey ==
    ( /\ hist.r.completed # <<>>
      /\ LastRead.error = "EntryNotFound"
      /\ LastRead.key = ReadKey(rj, 0) )
    => /\ ReadDone /\ ~timer /\ hist.r.emitted = 1
       /\ rj.error = "EntryNotFound" /\ rj.errorString = ErrorString("EntryNotFound")
       /\ rj.chunkCount = 0 /\ rj.chunkBuffer = <<>>
       /\ \A i \in 1..Len(hist.r.issued) : hist.r.issued[i].key = ReadKey(rj, 0)

C4_Witness ==
    /\ ReadDone /\ rj.error = "EntryNotFound"
    /\ LastRead.error = "EntryNotFound" /\ LastRead.key = ReadKey(rj, 0)
    /\ store # EmptyStore

\* ------------------------------------------------------------------------
\* C5: retry budget of one.  Where the retry is compiled in and the insecure
\* fallback is not engaged: a ReadJob whose first read failed with
\* NoBackendAvailable and whose retried read succeeded ends as a ReadJob
\* ends whose first read had that outcome; a second NoBackendAvailable is
\* recorded as the job's error.  In every configuration a ReadJob schedules
\* the retry at most once and emits nothing while the retry is pending.

\* The ReadJob as constructed, and where it ends when its first read
\* finishes as `done`.
Fresh(j) ==
    [j EXCEPT !.phase = "constructed", !.chunkBuffer = <<>>, !.chunkCount = 0,
              !.isJobRunning = FALSE, !.retryOnKeyChainError = TRUE,
              !.error = "NoError", !.errorString = "",
              !.await = FALSE, !.result = "none"]
Direct(j, done) == ReadJobDone(ReadStart(Fresh(j)).job, done).job

Outcome(j) ==
    <<j.error, j.errorString, j.chunkBuffer, j.chunkCount, j.isJobRunning>>

RetriesScheduled ==
    (IF hist.r.attempts > 0 THEN hist.r.attempts - 1 ELSE 0) + (IF timer THEN 1 ELSE 0)

C5_RetryOnce ==
    /\ RetriesScheduled <= 1
    /\ timer => (hist.r.emitted = 0 /\ rj.isJobRunning /\ backend = {})
    /\ ( /\ ReadRetryCompiled /\ ~rj.insecureFallback
         /\ Len(hist.r.completed) = 2
         /\ hist.r.completed[1].error = "NoBackendAvailable" )
       => /\ hist.r.attempts = 2 /\ ~timer
          /\ hist.r.completed[2].error = "NoError"
                => /\ ReadDone /\ hist.r.emitted = 1
                   /\ Outcome(rj) = Outcome(Direct(rj, hist.r.completed[2]))
                   /\ rj.error = "NoError"
          /\ hist.r.completed[2].error = "NoBackendAvailable"
                => /\ ReadDone /\ hist.r.emitted = 1
                   /\ rj.error = "NoBackendAvailable"
                   /\ rj.errorString = ErrorString("NoBackendAvailable")

C5_Witness ==
    /\ ReadRetryCompiled /\ ~rj.insecureFallback
    /\ Len(hist.r.completed) = 2
    /\ hist.r.completed[1].error = "NoBackendAvailable"
    /\ hist.r.completed[2].error = "NoError"
    /\ ReadDone /\ rj.chunkBuffer # <<>> /\ hist.r.attempts = 2

\* ------------------------------------------------------------------------
\* C6: write abort on failure.  When the backend write for chunk k fails,
\* the WriteJob records the error kind and message, drops the rest of its
\* buffer, starts no further write and finishes with that error; the
\* entries written for the indices below k stay in the store as written.
WriteFailedAt(k) ==
    /\ Len(hist.w.completed) >= k + 1
    /\ hist.w.completed[k + 1].error # "NoError"

C6_WriteAbort ==
    \A k \in 0..MaxChunks :
        WriteFailedAt(k)
        => /\ WriteDone /\ hist.w.emitted = 1
           /\ wj.error = hist.w.completed[k + 1].error
           /\ wj.errorString = hist.w.completed[k + 1].errorString
           /\ wj.chunkBuffer = <<>>
           /\ Len(hist.w.issued) = k + 1 /\ Len(hist.w.completed) = k + 1
           /\ \A w \in backend : w.op # "write"
           /\ \A i \in 0..(k - 1) :
                 /\ hist.w.issued[i + 1].key = ChunkKey(wj, i)
                 /\ ChunkKey(wj, i) \in DOMAIN store
                 /\ store[ChunkKey(wj, i)] = hist.w.issued[i + 1].data
                 /\ hist.w.issued[i + 1].data # <<>>

C6_Witness ==
    /\ platform = "win" /\ WriteFailedAt(1) /\ WriteDone
    /\ Len(wj.data) > 2 * ChunkSize
    /\ ChunkKey(wj, 0) \in DOMAIN store
    /\ store[ChunkKey(wj, 0)] = SubSeq(wj.data, 1, ChunkSize)

\* ------------------------------------------------------------------------
\* C7: ordered reassembly.  In every state the ReadJob's buffer is the
\* concatenation, in ascending index order, of the data its successful
\* reads of the current attempt returned for the indices 0..chunkCount-1,
\* none skipped or repeated, and chunkCount <= MaxChunks.
RECURSIVE Concat(_)
Concat(reads) == IF reads = <<>> THEN <<>> ELSE Head(reads).data \o Concat(Tail(reads))

AttemptReads == SubSeq(hist.r.completed, hist.r.first, Len(hist.r.completed))

C7_OrderedReassembly ==
    /\ rj.chunkCount <= MaxChunks
    /\ rj.chunkCount <= Len(AttemptReads)
    /\ \A i \in 1..rj.chunkCount :
          /\ AttemptReads[i].error = "NoError" /\ AttemptReads[i].data # <<>>
          /\ AttemptReads[i].key = ReadKey(rj, i - 1)
    /\ rj.chunkBuffer = Concat(SubSeq(AttemptReads, 1, rj.chunkCount))
    /\ rj.result # "false"
          => \A i \in 1..Len(AttemptReads) :
                (AttemptReads[i].error = "NoError" /\ AttemptReads[i].data # <<>>)
                   => i <= rj.chunkCount

C7_Witness ==
    /\ ReadDone /\ rj.chunkCount = MaxChunks
    /\ Len(rj.chunkBuffer) > (MaxChunks - 1) * ChunkSize
    /\ Len(AttemptReads) = MaxChunks

\* ------------------------------------------------------------------------
\* C8: one operation in flight.  A job has at most one backend operation
\* outstanding, none while the retry timer is pending and none once it has
\* completed; the operation for the next chunk index is started only by
\* the step that handles the completion of the previous one.
OneInFlight ==
    /\ Cardinality(backend) <= 1
    /\ timer => backend = {}
    /\ \A b \in backend :
          /\ b.op = "write" => (wj.phase = "started" /\ wj.isJobRunning)
          /\ b.op = "read" => (rj.phase = "started" /\ rj.isJobRunning)

Last(seq) == seq[Len(seq)]

\* A step in which history h becomes h2 and an operation for an index > 0
\* is started, handles the successful completion of the operation before.
ChainedStep(h, h2) ==
    (Len(h2.issued) > Len(h.issued) /\ Last(h2.index) > 0)
    => /\ Len(h2.issued) = Len(h.issued) + 1
       /\ Len(h2.completed) = Len(h.completed) + 1
       /\ Len(h2.completed) = Len(h.issued)
       /\ Last(h2.completed).id = Last(h.issued).id
       /\ Last(h2.completed).error = "NoError"
       /\ Last(h2.index) = Last(h.index) + 1

C8_OneInFlight ==
    /\ []OneInFlight
    /\ [][ChainedStep(hist.w, hist.w') /\ ChainedStep(hist.r, hist.r')]_vars

C8_Witness ==
    /\ Cardinality(backend) = 1
    /\ \E b \in backend : b.op = "read"
    /\ Len(hist.r.issued) = MaxChunks /\ Last(hist.r.index) = MaxChunks - 1

\* ------------------------------------------------------------------------
\* C9: termination.  If every backend operation eventually completes and a
\* scheduled retry eventually fires, a started job reaches its completed
\* state, emits finished exactly once and starts nothing afterwards; a
\* WriteJob starts at most MaxChunks writes, a ReadJob at most MaxChunks
\* reads per attempt in at most two attempts; startAwait returns when, and
\* only when, the running flag is false.
Fairness ==
    /\ WF_vars(WriteJob_slotWriteJobDone)
    /\ WF_vars(ReadJob_slotReadJobDone)
    /\ WF_vars(ReadJob_retryTimer)
    /\ WF_vars(WriteJob_startAwait)
    /\ WF_vars(ReadJob_startAwait)

FairSpec == Spec /\ Fairness

Bounded ==
    /\ hist.w.emitted = (IF WriteDone THEN 1 ELSE 0)
    /\ hist.r.emitted = (IF ReadDone THEN 1 ELSE 0)
    /\ Len(hist.w.issued) <= MaxChunks
    /\ hist.w.attempts <= 1 /\ hist.r.attempts <= 2
    /\ \A i \in 1..Len(hist.r.index) : hist.r.index[i] < MaxChunks
    /\ wj.result # "none" => (wj.await /\ ~wj.isJobRunning)
    /\ rj.result # "none" => (rj.await /\ ~rj.isJobRunning)

Final ==
    /\ WriteDone => (WriteDone' /\ hist.w' = hist.w)
    /\ ReadDone => (ReadDone' /\ hist.r' = hist.r)

\* A started job that still runs, or whose startAwait has not returned.
Pending ==
    \/ wj.phase = "started" /\ (wj.isJobRunning \/ (wj.await /\ wj.result = "none"))
    \/ rj.phase = "started" /\ (rj.isJobRunning \/ (rj.await /\ rj.result = "none"))

\* A job that is over stays over (Final), so that "again and again nothing
\* is pending" says that each started job completes and each startAwait
\* returns.
C9_Termination ==
    /\ []Bounded
    /\ [][Final]_vars
    /\ []<>(~Pending)

C9_Witness ==
    /\ ReadDone /\ rj.await /\ rj.result = "false"
    /\ hist.r.attempts = 2 /\ hist.r.emitted = 1
    /\ WriteDone /\ wj.await /\ wj.result = "true" /\ hist.w.emitted = 1

\* ------------------------------------------------------------------------
\* C10: migration-mode key derivation.  Every key a ReadJob with an account
\* reads, for chunk 0 and for the later chunks, carries the account's url,
\* the chunk-suffixed name and, as account identifier, nothing in migration
\* mode and the account's id otherwise; a WriteJob with an account always
\* uses the id, so that it and a non-migration ReadJob of the same account
\* and key derive the same storage key for every chunk index.
C10_MigrationKeys ==
    /\ rj.account # nullptr
          => \A i \in 1..Len(hist.r.issued) :
                hist.r.issued[i].key =
                    <<rj.account.url, ChunkName(rj.key, hist.r.index[i]),
                      IF rj.keychainMigration THEN "" ELSE rj.account.id>>
    /\ wj.account # nullptr
          => \A i \in 1..Len(hist.w.issued) :
                hist.w.issued[i].key =
                    <<wj.account.url, ChunkName(wj.key, hist.w.index[i]), wj.account.id>>
    /\ (rj.account # nullptr /\ SameScope)
          => \A i \in 1..Len(hist.r.issued), k \in 1..Len(hist.w.issued) :
                hist.r.index[i] = hist.w.index[k]
                   => hist.r.issued[i].key = hist.w.issued[k].key

C10_Witness ==
    /\ rj.account # nullptr /\ rj.keychainMigration
    /\ Len(hist.r.issued) = MaxChunks /\ Last(hist.r.index) = MaxChunks - 1
    /\ Last(hist.r.issued).key[3] = ""
    /\ wj.account # nullptr /\ Len(hist.w.issued) = MaxChunks

\* ------------------------------------------------------------------------
\* C11: blocking adapter result.  startAwait of a WriteJob or a ReadJob
\* returns true exactly when the job's error state is NoError; when it
\* returns false the error state is the kind and message of the completion
\* that ended the job (EntryNotFound only for a missing entry), and a
\* ReadJob has chunk count 0 and an empty buffer.
C11_AwaitResult ==
    /\ wj.result # "none"
          => /\ wj.result = "true" <=> wj.error = "NoError"
             /\ wj.result = "false"
                   => /\ hist.w.completed # <<>>
                      /\ wj.error = Last(hist.w.completed).error
                      /\ wj.errorString = Last(hist.w.completed).errorString
    /\ rj.result # "none"
          => /\ rj.result = "true" <=> rj.error = "NoError"
             /\ rj.result = "false"
                   => /\ rj.error = LastRead.error
                      /\ rj.errorString = LastRead.errorString
                      /\ rj.error = "EntryNotFound" => LastRead.key = ReadKey(rj, 0)
                      /\ rj.chunkCount = 0 /\ rj.chunkBuffer = <<>>

C11_Witness ==
    /\ wj.result = "true"
    /\ rj.result = "false" /\ rj.error = "AccessDenied"
    /\ Len(AttemptReads) = MaxChunks
    /\ rj.chunkCount = 0 /\ rj.chunkBuffer = <<>>

\* ------------------------------------------------------------------------
\* C12: overwrite.  In the multi-chunk configuration, after a WriteJob for
\* a non-empty secret S1 and then a WriteJob for a non-empty secret S2,
\* both of at most ChunkSize * MaxChunks bytes and on the same key and
\* scope, ran to successful completion, a ReadJob on that key and scope
\* completes with NoError and a buffer equal to S2, also when S2 occupies
\* fewer chunks than S1.

\* The WriteJob for secret d on the key and scope of the current WriteJob.
Rewrite(d) == [NewWriteJob(wj.ctor, wj.account, "", d) EXCEPT !.key = wj.key]

\* The current WriteJob started on the store an earlier WriteJob for d, on
\* the same key and scope, left behind.
Overwrites(d) == d # <<>> /\ Len(d) <= Capacity /\ hist.w.pre = StoreAfter(Rewrite(d))

C12_Overwrite ==
    ( /\ platform = "win"
      /\ ReadDone /\ SameScope
      /\ \E d \in OldSecrets : Overwrites(d)
      /\ wj.data # <<>> /\ Len(wj.data) <= Capacity
      /\ WritesSucceeded /\ ReadsServed )
    => (rj.error = "NoError" /\ rj.chunkBuffer = wj.data)

\* ------------------------------------------------------------------------
\* C13: empty secret.  A WriteJob with an empty payload issues a backend
\* write for chunk 0 under the unsuffixed derived key, and once it has
\* completed a ReadJob on the same key and scope completes with NoError
\* and an empty buffer, whatever the store held under that key before.
EmptyWritten ==
    /\ Len(hist.w.issued) = 1
    /\ hist.w.issued[1].op = "write"
    /\ hist.w.issued[1].key = ChunkKey(wj, 0)
    /\ hist.w.issued[1].data = <<>>

EmptyReadBack == rj.error = "NoError" /\ rj.chunkBuffer = <<>>

C13_EmptySecret ==
    /\ (wj.phase = "started" /\ wj.data = <<>>) => EmptyWritten
    /\ ( /\ ReadDone /\ SameScope /\ wj.data = <<>>
         /\ WritesSucceeded /\ ReadsServed )
       => EmptyReadBack

\* The two halves of C13 on their own.
C13_WriteIssued == (wj.phase = "started" /\ wj.data = <<>>) => EmptyWritten
C13_ReadBack ==
    ( /\ ReadDone /\ SameScope /\ wj.data = <<>>
      /\ WritesSucceeded /\ ReadsServed )
    => EmptyReadBack

\* ------------------------------------------------------------------------
\* C14: retry keeps position.  While the retry is pending the ReadJob holds
\* the chunk count and buffer it had when the failed read was handled, that
\* read being the one for index chunkCount; the step in which the timer
\* fires leaves chunk count and buffer as they are and issues one read,
\* for the index and under the key of the read that failed.
RetryHeld ==
    timer => /\ hist.r.completed # <<>>
             /\ LastRead.id = Last(hist.r.issued).id
             /\ LastRead.error \in {"NoBackendAvailable", "OtherError"}
             /\ Last(hist.r.index) = rj.chunkCount
             /\ rj.chunkBuffer = Concat(SubSeq(AttemptReads, 1, rj.chunkCount))

TimerFires ==
    (timer /\ ~timer')
    => /\ rj'.chunkCount = rj.chunkCount
       /\ rj'.chunkBuffer = rj.chunkBuffer
       /\ Len(hist.r'.issued) = Len(hist.r.issued) + 1
       /\ Last(hist.r'.issued).op = "read"
       /\ Last(hist.r'.issued).key = LastRead.key
       /\ Last(hist.r'.index) = Last(hist.r.index)

C14_RetryKeepsPosition == []RetryHeld /\ [][TimerFires]_vars

C14_Witness ==
    /\ hist.r.attempts = 2 /\ ~timer /\ rj.isJobRunning
    /\ Len(hist.r.issued) = 2 /\ Len(hist.r.completed) = 1
    /\ hist.r.completed[1].error = "OtherError"
    /\ hist.r.issued[2].key = hist.r.issued[1].key
    /\ \E b \in backend : b.id = hist.r.issued[2].id

\* ------------------------------------------------------------------------
\* C15: buffer discarded on read error.  In the step in which a ReadJob
\* emits finished with an error state other than NoError, started by
\* start() or by startAwait(), it ends with an empty buffer and chunk count
\* 0, also when the failing read was for an index > 0.
EmitsFailure ==
    (hist.r'.emitted > hist.r.emitted /\ rj'.error # "NoError")
    => (rj'.chunkBuffer = <<>> /\ rj'.chunkCount = 0)

C15_BufferDiscarded == [][EmitsFailure]_vars

\* The same as a property of the completed job.
C15_FailedIsEmpty ==
    (ReadDone /\ rj.error # "NoError") => (rj.chunkBuffer = <<>> /\ rj.chunkCount = 0)

\* ------------------------------------------------------------------------
\* C16: empty data is a failure.  When a backend read completes with
\* NoError and zero bytes (the retry rule never applies to NoError), the
\* ReadJob finishes on that completion with an error state other than
\* NoError, at chunk 0 as at a later index.
EmptyData ==
    /\ hist.r.completed # <<>>
    /\ LastRead.error = "NoError" /\ LastRead.data = <<>>

C16_EmptyDataFails == EmptyData => (ReadDone /\ rj.error # "NoError")

\* The cases of C16 one by one: the empty read is the one for chunk 0, or
\* the one for a later index.
C16_EmptyAtZero ==
    (EmptyData /\ Last(hist.r.index) = 0) => (ReadDone /\ rj.error # "NoError")
C16_EmptyLater ==
    (EmptyData /\ Last(hist.r.index) > 0) => (ReadDone /\ rj.error # "NoError")

\* ------------------------------------------------------------------------
\* C17: end of data.  When the read for chunk index k >= 1 completes with
\* EntryNotFound after the chunks 0..k-1 were read, the ReadJob finishes on
\* that completion with error state NoError, chunk count k and the
\* concatenation of the chunks 0..k-1 as its buffer; the job's error is
\* EntryNotFound only if that was the outcome of the read of chunk 0, the
\* chunk count being 0.
EndOfData ==
    /\ hist.r.completed # <<>>
    /\ LastRead.error = "EntryNotFound"
    /\ Last(hist.r.index) >= 1

C17_EndOfData ==
    /\ EndOfData
          => /\ ReadDone /\ hist.r.emitted = 1
             /\ rj.error = "NoError" /\ rj.errorString = ""
             /\ rj.result # "false"
             /\ rj.chunkCount = Last(hist.r.index)
             /\ Len(AttemptReads) = rj.chunkCount + 1
             /\ \A i \in 1..rj.chunkCount :
                   /\ AttemptReads[i].key = ReadKey(rj, i - 1)
                   /\ AttemptReads[i].error = "NoError"
             /\ rj.chunkBuffer = Concat(SubSeq(AttemptReads, 1, rj.chunkCount))
    /\ rj.error = "EntryNotFound"
          => /\ LastRead.error = "EntryNotFound"
             /\ Last(hist.r.index) = 0
             /\ rj.chunkCount = 0

C17_Witness ==
    /\ EndOfData /\ ReadDone /\ SameScope
    /\ Last(hist.r.index) = MaxChunks - 1
    /\ rj.error = "NoError"
    /\ rj.chunkCount = MaxChunks - 1
    /\ rj.chunkBuffer = wj.data

\* ------------------------------------------------------------------------
\* C18: retry eligibility.  A step schedules the retry of a ReadJob only
\* if the read whose completion it handles failed with NoBackendAvailable
\* or OtherError, ran without insecure fallback, and the job's retry
\* permission was still set; a read of the current attempt that fails
\* with any other kind, or that does not meet these conditions, ends the
\* job on that completion.  A
\* WriteJob never retries: it is started once, writes each index at most
\* once, and issues nothing after a failed write.
SchedulesRetry ==
    (~timer /\ timer')
    => /\ Len(hist.r'.completed) = Len(hist.r.completed) + 1
       /\ Last(hist.r'.completed).error \in {"NoBackendAvailable", "OtherError"}
       /\ ~Last(hist.r'.completed).insecureFallback
       /\ rj.retryOnKeyChainError /\ ~rj'.retryOnKeyChainError
       /\ ReadRetryCompiled

NotRetried ==
    ( /\ AttemptReads # <<>>
      /\ LastRead.error # "NoError"
      /\ \/ LastRead.error \notin {"NoBackendAvailable", "OtherError"}
         \/ LastRead.insecureFallback
         \/ hist.r.attempts = 2
         \/ ~ReadRetryCompiled )
    => /\ ~timer /\ ReadDone /\ hist.r.emitted = 1
       /\ Len(hist.r.issued) = Len(hist.r.completed)
       /\ ReadRecordsError(Last(hist.r.index), LastRead.error)
             => (rj.error = LastRead.error /\ rj.errorString = LastRead.errorString)

WriteNeverRetries ==
    /\ hist.w.attempts <= 1
    /\ \A i \in 1..Len(hist.w.index) : hist.w.index[i] = i - 1
    /\ \A i \in 1..Len(hist.w.completed) :
          hist.w.completed[i].error # "NoError"
             => (Len(hist.w.issued) = i /\ WriteDone /\ wj.error = hist.w.completed[i].error)

C18_RetryEligibility ==
    /\ [][SchedulesRetry]_vars
    /\ [](NotRetried /\ WriteNeverRetries)

C18_Witness ==
    /\ timer /\ LastRead.error = "OtherError" /\ ~LastRead.insecureFallback
    /\ hist.r.attempts = 1 /\ hist.r.emitted = 0
    /\ WriteDone /\ wj.error = "NoBackendAvailable" /\ Len(hist.w.issued) = 1

\* The other cases of C18: no retry with the insecure fallback engaged, and
\* none for a kind that is not eligible.
C18_FallbackCase ==
    /\ ReadRetryCompiled /\ rj.insecureFallback /\ ReadDone
    /\ hist.r.attempts = 1 /\ rj.error = "NoBackendAvailable"
C18_OtherKindCase ==
    /\ ReadRetryCompiled /\ ~rj.insecureFallback /\ ReadDone
    /\ hist.r.attempts = 1 /\ rj.error = "AccessDenied"

\* ------------------------------------------------------------------------
\* The chunked algorithm (the Q_OS_WIN branches of the two slots) as
\* functions of the chunk size.

\* The store after a WriteJob j with pending buffer buf, about to write
\* chunk index, wrote all its chunks of at most `size` bytes to store s.
RECURSIVE ChunkedStore(_, _, _, _, _)
ChunkedStore(s, j, buf, index, size) ==
    IF buf = <<>> \/ index >= MaxChunks THEN s
    ELSE LET chunk == Left(buf, size)
         IN  ChunkedStore(StorePut(s, WriteKck(j, index), chunk), j,
                          Right(buf, Len(buf) - Len(chunk)), index + 1, size)

\* Error state and buffer of a ReadJob j that holds buf after count chunks
\* and reads on from store s.
RECURSIVE ChunkedRead(_, _, _, _)
ChunkedRead(s, j, buf, count) ==
    LET key == IF count = 0 THEN ReadStartKck(j)
               ELSE ReadNextKck([j EXCEPT !.chunkCount = count])
    IN  IF key \in DOMAIN s /\ Len(s[key]) > 0
        THEN IF count + 1 < MaxChunks
             THEN ChunkedRead(s, j, ReadAppend(buf, s[key]), count + 1)
             ELSE [error |-> "NoError", buffer |-> ReadAppend(buf, s[key])]
        ELSE [error |-> IF key \notin DOMAIN s /\ ReadRecordsError(count, "EntryNotFound")
                        THEN "EntryNotFound" ELSE "NoError",
              buffer |-> buf]

ReadResult == [error |-> rj.error, buffer |-> rj.chunkBuffer]

\* The functions are the model's multi-chunk configuration at ChunkSize.
ChunkedAgrees ==
    /\ (platform = "win" /\ WriteDone /\ WritesSucceeded)
          => store = ChunkedStore(hist.w.pre, wj, wj.data, 0, ChunkSize)
    /\ (platform = "win" /\ ReadDone /\ ReadsServed)
          => ReadResult = ChunkedRead(store, rj, <<>>, 0)

\* ------------------------------------------------------------------------
\* C19: the uncapped backend collapses to one round trip.  In the
\* configurations without chunking a WriteJob for a non-empty payload
\* issues exactly one backend write, of the whole payload under the
\* unsuffixed key; a ReadJob issues exactly one backend read per attempt,
\* always for the unsuffixed key, and finishes with NoError and the data
\* on the first successful non-empty read; the store after the write and
\* the result of the read are those of the chunked algorithm run with any
\* chunk size from the payload length upwards.
Uncapped == platform # "win"

OneWrite ==
    (wj.phase = "started" /\ wj.data # <<>>)
    => /\ Len(hist.w.issued) = 1
       /\ hist.w.issued[1].op = "write"
       /\ hist.w.issued[1].key = ChunkKey(wj, 0)
       /\ hist.w.issued[1].data = wj.data

OneReadPerAttempt ==
    /\ Len(hist.r.issued) = hist.r.attempts
    /\ \A i \in 1..Len(hist.r.issued) :
          hist.r.issued[i].op = "read" /\ hist.r.issued[i].key = ReadKey(rj, 0)
    /\ (hist.r.completed # <<>> /\ LastRead.error = "NoError" /\ LastRead.data # <<>>)
          => /\ ReadDone /\ hist.r.emitted = 1
             /\ rj.error = "NoError" /\ rj.chunkCount = 1
             /\ rj.chunkBuffer = LastRead.data

AsChunked ==
    /\ (WriteDone /\ WritesSucceeded /\ wj.data # <<>>)
          => \A size \in Len(wj.data)..(MaxLen + 1) :
                store = ChunkedStore(hist.w.pre, wj, wj.data, 0, size)
    /\ (ReadDone /\ ReadsServed)
          => ReadResult = ChunkedRead(store, rj, <<>>, 0)

C19_SingleRoundTrip == Uncapped => (OneWrite /\ OneReadPerAttempt /\ AsChunked)

C19_Witness ==
    /\ Uncapped /\ ReadDone /\ SameScope
    /\ Len(wj.data) > Capacity /\ WritesSucceeded
    /\ Len(hist.w.issued) = 1 /\ Len(hist.r.issued) = 1
    /\ rj.error = "NoError" /\ rj.chunkBuffer = wj.data
    /\ store = ChunkedStore(hist.w.pre, wj, wj.data, 0, Len(wj.data))
    /\ store # hist.w.pre

\* ------------------------------------------------------------------------
\* C20: write frame.  With n the number of backend writes of a started
\* WriteJob that succeeded (n <= MaxChunks), the store differs from the store the
\* job started on only under the job's keys for the indices 0..n-1, which
\* hold the chunks written; no entry is gone, and every other entry, such
\* as a chunk of index >= n left by an earlier write and an entry of
\* another key or scope, is as it was.  No step of the ReadJob changes the
\* store.
Written == {i \in 1..Len(hist.w.completed) : hist.w.completed[i].error = "NoError"}

WriteFrame ==
    LET n    == Cardinality(Written)
        mine == {ChunkKey(wj, i) : i \in 0..(n - 1)}
    IN  wj.phase = "started"
        => /\ n <= MaxChunks
           /\ Written = 1..n
           /\ DOMAIN store = DOMAIN hist.w.pre \cup mine
           /\ \A i \in 0..(n - 1) : store[ChunkKey(wj, i)] = hist.w.issued[i + 1].data
           /\ \A key \in DOMAIN hist.w.pre \ mine : store[key] = hist.w.pre[key]

ReadFrame == (rj' # rj \/ hist.r' # hist.r) => store' = store

C20_WriteFrame == []WriteFrame /\ [][ReadFrame]_vars

C20_Witness ==
    /\ platform = "win" /\ ReadDone /\ WriteDone /\ WritesSucceeded
    /\ Cardinality(Written) = 1
    /\ Cardinality(DOMAIN hist.w.pre) = MaxChunks
    /\ \A i \in 0..(MaxChunks - 1) : ChunkKey(wj, i) \in DOMAIN hist.w.pre
    /\ store[ChunkKey(wj, 0)] = wj.data
    /\ \A i \in 1..(MaxChunks - 1) :
          store[ChunkKey(wj, i)] = hist.w.pre[ChunkKey(wj, i)]

\* The frame with entries of another scope in the store.
C20_OtherScopeCase ==
    /\ WriteDone /\ WritesSucceeded /\ Cardinality(Written) = MaxChunks
    /\ wj.account # nullptr
    /\ DOMAIN store = {ChunkKey(wj, i) : i \in 0..(MaxChunks - 1)} \cup DOMAIN hist.w.pre
    /\ Cardinality(DOMAIN store) = 2 * MaxChunks
====
